---- MODULE Spec2Model ----
(***************************************************************************)
(* Model of the OpenAI Responses client of expense-tracker: job submission *)
(* (createResponse), the completion polling loop                          *)
(* (waitForResponseCompletion), SendPromptReturnResponse and the exported  *)
(* callers UseChatGPTResponsesAPI / UseChatGPTResponsesAPIWithImage.       *)
(*                                                                         *)
(* Time is the wall clock in whole seconds.  A network call (POST or GET)  *)
(* takes at least one tick, so the clock is strictly later after it.  The  *)
(* GET round-trip time is an input of the run (getLatency), the same for   *)
(* every poll of that run.                                                 *)
(***************************************************************************)
EXTENDS Integers, Sequences, FiniteSets, TLC

\* ---------------------------------------------------------------- bounds
\* slowest GET /responses/{id} round trip explored, in seconds
MaxGetDur == 2
\* longest POST /responses round trip explored, in seconds
MaxPostDur == 1
\* largest timeout argument explored for a direct waitForResponseCompletion call
MaxTimeout == 6
\* largest waitInterval argument explored for a direct call, in seconds
MaxInterval == 2
\* polls explored when the call has no deadline (timeout <= 0)
MaxPolls == 4

\* most entries of a property map explored
MaxProps == 3
\* calls of one helper function made on the same argument
MaxCalls == 2
\* most whitespace characters put before and after a model name
MaxPad == 1
\* latest clock reading, in seconds, of a direct ExtractLLMRunMetadata call
MaxClock == 2
\* largest token count of a usage block explored
MaxTokens == 2
\* most output items of a response explored
MaxItems == 2
\* most content fragments of an output item explored
MaxFrags == 2
\* most entries of the directory given to the receipt pipeline
MaxEntries == 3
\* largest amount of a category aggregate explored (the smallest is -1)
MaxAmount == 2
\* most categories in the aggregates given to buildCategoryRows
MaxCategories == 4
\* largest maxRows argument explored
MaxRowsArg == 4

\* ------------------------------------------------------ program constants
\* 2*time.Second passed by SendPromptReturnResponse
SendWaitInterval == 2
\* 5*time.Minute passed by SendPromptReturnResponse, in seconds
SendWaitTimeout == 300
\* util.WaitForSeconds(3) before SendPromptReturnResponse returns
TailWaitSeconds == 3

\* ------------------------------------------------------------ wire values
InProgressStatuses == {"in_progress", "queued"}
SuccessStatuses == {"completed", "incomplete"}
FailureStatuses == {"failed", "cancelled", "expired"}

JobIds == {"resp_1"}
\* opaque vendor error payloads (responseObject.Error); "nil" = absent
ErrorPayloads == {"nil", "vendor_error_A"}

\* content fragments and output items of a response envelope
Frag(type, text) == [Type |-> type, Text |-> text]
Item(type, content) == [Type |-> type, Content |-> content]

\* a nil pointer is <<>>, a pointer to v is <<v>>
Nil == <<>>
Ptr(v) == <<v>>

\* usageBlock with its two optional detail sub-blocks
usageBlock(in, cached, out, reasoning, total) ==
    [InputTokens |-> in, InputTokensDetails |-> cached, OutputTokens |-> out,
     OutputTokensDetails |-> reasoning, TotalTokens |-> total]
inputTokensDetails(n) == [CachedTokens |-> n]
outputTokensDetails(n) == [ReasoningTokens |-> n]
\* Reasoning with its optional effort
Reasoning(effort) == [Effort |-> effort]

JSONText == "{\"total\":1}"
OutJSON == << Item("message", << Frag("output_text", JSONText) >>) >>
OutParts ==
    << Item("reasoning", <<>>),
       Item("message", << Frag("output_text", "foo"), Frag("refusal", "no"),
                          Frag("output_text", "bar") >>) >>

Body(output, usage, reasoning) ==
    [Output |-> output, Usage |-> usage, Reasoning |-> reasoning]
EmptyBody == Body(<<>>, Nil, Nil)
\* the bodies a finished job is explored with: output, usage, echoed reasoning
FinishedBodies ==
    { Body(OutJSON, Ptr(usageBlock(100, Ptr(inputTokensDetails(20)), 50,
                                   Ptr(outputTokensDetails(30)), 150)),
           Ptr(Reasoning(Ptr("low")))),
      Body(OutParts, Nil, Nil),
      Body(<<>>, Ptr(usageBlock(100, Ptr(inputTokensDetails(20)), 50, Nil, 150)),
           Ptr(Reasoning(Ptr("low")))),
      Body(OutJSON, Ptr(usageBlock(100, Nil, 50, Ptr(outputTokensDetails(30)), 150)),
           Nil),
      Body(OutJSON, Ptr(usageBlock(100, Nil, 50, Nil, 150)),
           Ptr(Reasoning(Nil))) }

responseObject(id, status, body, error) ==
    [ID |-> id, Status |-> status, Output |-> body.Output, Usage |-> body.Usage,
     Reasoning |-> body.Reasoning, Error |-> error]
\* responseObject{}
ZeroResponse == responseObject("", "", EmptyBody, "nil")

\* what the vendor can answer for job id: a running job has no output yet and
\* no error; a finished one carries a body; a failed one carries its error
VendorResponses(id) ==
    { responseObject(id, s, EmptyBody, "nil") : s \in InProgressStatuses }
    \cup { responseObject(id, s, b, "nil") : s \in SuccessStatuses \cup {""},
                                             b \in FinishedBodies }
    \cup { responseObject(id, s, EmptyBody, p) : s \in FailureStatuses,
                                                 p \in ErrorPayloads }

\* ------------------------------------------------------------ xerr.Error
NewError(err, msg, ctxKind, ctxValue) ==
    [err |-> err, msg |-> msg, ctxKind |-> ctxKind, ctxValue |-> ctxValue]
NilError == [err |-> "nil", msg |-> "", ctxKind |-> "nil", ctxValue |-> "nil"]

\* the ways one HTTP exchange of createResponse / getResponseByID can fail
TransportFailures == {"http", "status", "read", "decode"}
CreateError(kind) ==
    CASE kind = "http"   -> NewError("http", "HTTP error during createResponse", "url", "/responses")
      [] kind = "status" -> NewError("status", "API error from /v1/responses", "body", "raw_body")
      [] kind = "read"   -> NewError("read", "Failed to read response body", "url", "/responses")
      [] OTHER           -> NewError("decode", "Failed to decode response body", "nil", "nil")
GetError(kind, responseID) ==
    CASE kind = "http"   -> NewError("http", "HTTP error during getResponseByID", "url", responseID)
      [] kind = "status" -> NewError("status", "API error from GET /v1/responses/{id}", "body", "raw_body")
      [] kind = "read"   -> NewError("read", "Failed to read response body", "url", responseID)
      [] OTHER           -> NewError("decode", "Failed to decode response body", "nil", "nil")

VARIABLES
    entry,          \* exported function that was called
    pc,             \* control position of the call
    now,            \* wall clock, seconds
    getLatency,     \* seconds one GET /responses/{id} round trip takes in this run
    startTime,      \* SendPromptReturnResponse: startTime
    initial,        \* SendPromptReturnResponse: initial
    createErr,      \* SendPromptReturnResponse: createErr
    posts,          \* POST /responses calls issued so far
    responseID,     \* waitForResponseCompletion: responseID
    waitInterval,   \* waitForResponseCompletion: waitInterval
    timeout,        \* waitForResponseCompletion: timeout
    useTimeout,     \* waitForResponseCompletion: useTimeout
    deadline,       \* waitForResponseCompletion: deadline
    poll,           \* waitForResponseCompletion: poll (GETs issued)
    previousStatus, \* waitForResponseCompletion: previousStatus
    lastResp,       \* waitForResponseCompletion: lastResp
    final,          \* waitForResponseCompletion: returned response
    waitErr,        \* waitForResponseCompletion: returned error
    sleeps,         \* poll-loop sleeps taken so far
    onlyInProgress, \* every non-terminal status fetched so far was "in_progress"
    finalResp,      \* SendPromptReturnResponse: finalResp
    decoded,        \* statuses of the responses handed to the two extractors
    responseText,   \* SendPromptReturnResponse: returned responseText
    meta,           \* SendPromptReturnResponse: returned meta
    sendErr,        \* SendPromptReturnResponse: returned e
    tailSleeps,     \* sleeps taken outside the poll loop
    openAIResponse, \* caller: whether the target value was decoded
    llmRunMetadata, \* caller: returned *LLMRunMetadata (<<>> = nil)
    apiErr,         \* caller: returned e
    props,          \* StrictObj: props argument
    strictCalls,    \* StrictObj: results of the calls made with props
    callArgs,       \* arguments of the exported caller that was called
    inputParameters, \* SendPromptReturnResponse: inputParameters
    requestPayload, \* payload handed to createResponse (<<>> = none yet)
    extractResp,    \* response an extractor is called on by itself
    extracted,      \* what that extractor returned (<<>> = nothing yet)
    extractStart,   \* ExtractLLMRunMetadata: the startTime argument, seconds
    model,          \* ParseModelSnapshot: model argument
    parsed,         \* ParseModelSnapshot: <<base, snapshot>> returned
    httpResp,       \* GetBody: resp argument
    gotBody,        \* GetBody: body and e returned (<<>> = nothing yet)
    statusCode,     \* resp.StatusCode of the HTTP reply
    exchanged,      \* createResponse / getResponseByID: what was returned
    imagesToProcess,  \* receipt pipeline: the image paths, as resolved
    attempted,      \* the images processOneImage was called with, in order, and how each ended
    processedCount, \* main's counter of images processed
    skippedCount,   \* main's counter of images skipped
    written,        \* images whose receipt-analysis.json was handed to os.WriteFile
    categoryAggByKey, \* buildCategoryRows: the aggregates, by category key
    maxRows,        \* buildCategoryRows: its maxRows argument
    rows            \* buildCategoryRows: what it returned (<<>> = nothing yet)

waitVars == <<responseID, waitInterval, timeout, useTimeout, deadline, poll,
              previousStatus, lastResp, final, waitErr, sleeps, onlyInProgress>>
sendVars == <<startTime, initial, createErr, posts, finalResp, decoded,
              responseText, meta, sendErr, tailSleeps>>
callerVars == <<openAIResponse, llmRunMetadata, apiErr>>
\* inputs and results of the helper functions called on their own
payloadVars == <<callArgs, inputParameters, requestPayload>>
extractVars == <<extractResp, extracted, extractStart>>
parseVars == <<model, parsed>>
bodyVars == <<httpResp, gotBody, statusCode, exchanged>>
strictVars == <<props, strictCalls>>
batchVars == <<imagesToProcess, attempted, processedCount, skippedCount, written>>
reportVars == <<categoryAggByKey, maxRows, rows>>
fnVars == <<strictVars, payloadVars, extractVars, parseVars, bodyVars, batchVars, reportVars>>
vars == <<entry, pc, now, getLatency, waitVars, sendVars, callerVars, fnVars>>

\* ------------------------------------------------------ Go strings
\* a string is the sequence of its one-character strings; ByteOf is the byte
\* value Go compares strings by
Digits == <<"0", "1", "2", "3", "4", "5", "6", "7", "8", "9">>
Uppers == <<"A", "B", "C", "D", "E", "F", "G", "H", "I", "J", "K", "L", "M",
            "N", "O", "P", "Q", "R", "S", "T", "U", "V", "W", "X", "Y", "Z">>
Lowers == <<"a", "b", "c", "d", "e", "f", "g", "h", "i", "j", "k", "l", "m",
            "n", "o", "p", "q", "r", "s", "t", "u", "v", "w", "x", "y", "z">>
Range(seq) == { seq[i] : i \in DOMAIN seq }
IndexOf(seq, c) == CHOOSE i \in DOMAIN seq : seq[i] = c
ByteOf(c) ==
    CASE c = " "  -> 32
      [] c = "\t" -> 9
      [] c = "-"  -> 45
      [] c = "."  -> 46
      [] c \in Range(Digits) -> 47 + IndexOf(Digits, c)
      [] c \in Range(Uppers) -> 64 + IndexOf(Uppers, c)
      [] c \in Range(Lowers) -> 96 + IndexOf(Lowers, c)

RECURSIVE StringLess(_, _)
\* a < b on Go strings: bytewise lexicographic, a proper prefix is smaller
StringLess(a, b) ==
    IF b = <<>> THEN FALSE
    ELSE IF a = <<>> THEN TRUE
    ELSE IF ByteOf(Head(a)) # ByteOf(Head(b)) THEN ByteOf(Head(a)) < ByteOf(Head(b))
    ELSE StringLess(Tail(a), Tail(b))

RECURSIVE InsertString(_, _)
InsertString(sorted, k) ==
    IF sorted = <<>> THEN <<k>>
    ELSE IF StringLess(k, Head(sorted)) THEN <<k>> \o sorted
    ELSE <<Head(sorted)>> \o InsertString(Tail(sorted), k)

RECURSIVE SortStrings(_)
\* sort.Strings(keys): keys in increasing order
SortStrings(keys) ==
    IF keys = <<>> THEN <<>>
    ELSE InsertString(SortStrings(Tail(keys)), Head(keys))

\* ---------------------------------------------------------- StrictObj
\* map[string]any: nil or not, and its entries
GoMap(isNil, kv) == [isNil |-> isNil, kv |-> kv]
NilMap == GoMap(TRUE, <<>>)
EmptyMap == GoMap(FALSE, <<>>)

\* the orders in which `for k := range m` can visit the keys of m
RangeOrders(m) ==
    LET ks == DOMAIN m.kv
        n == Cardinality(ks)
    IN { o \in [1..n -> ks] : \A i, j \in 1..n : i # j => o[i] # o[j] }

\* StrictObj(props) when range visits the keys in the order visited
\* (faulty variant: the keys are left in the order visited, as GetRequiredFields does)
StrictObjUnsorted(p, visited) ==
    [type |-> "object",
     properties |-> IF p.isNil THEN EmptyMap ELSE p,
     additionalProperties |-> FALSE,
     required |-> visited]
StrictObj(p, visited) ==
    [type |-> "object",
     properties |-> IF p.isNil THEN EmptyMap ELSE p,
     additionalProperties |-> FALSE,
     required |-> SortStrings(visited)]

\* nothing has been called in a group of helper variables
StrictIdle == props = NilMap /\ strictCalls = <<>>
PayloadIdle == callArgs = Nil /\ inputParameters = Nil /\ requestPayload = Nil
ExtractIdle == extractResp = ZeroResponse /\ extracted = Nil /\ extractStart = 0
ParseIdle == model = <<>> /\ parsed = Nil
BodyIdle == httpResp = Nil /\ gotBody = Nil /\ statusCode = 0 /\ exchanged = Nil
BatchIdle ==
    /\ imagesToProcess = <<>> /\ attempted = <<>> /\ written = {}
    /\ processedCount = 0 /\ skippedCount = 0
ReportIdle == categoryAggByKey = <<>> /\ maxRows = 0 /\ rows = <<>>
FnIdle ==
    /\ StrictIdle /\ PayloadIdle /\ ExtractIdle /\ ParseIdle /\ BodyIdle
    /\ BatchIdle /\ ReportIdle

\* ------------------------------------------------ output and metadata
RECURSIVE FragmentsTextAnyType(_)
\* (faulty variant of the inner loop: the fragment type is not looked at)
FragmentsTextAnyType(content) ==
    IF content = <<>> THEN ""
    ELSE Head(content).Text \o FragmentsTextAnyType(Tail(content))

RECURSIVE FragmentsText(_)
\* inner loop of extractOutputText over one item's content
FragmentsText(content) ==
    IF content = <<>> THEN ""
    ELSE LET c == Head(content)
         IN (IF c.Type = "output_text" /\ c.Text # "" THEN c.Text ELSE "")
                \o FragmentsText(Tail(content))

RECURSIVE OutputText(_)
\* outer loop of extractOutputText over resp.Output
OutputText(output) ==
    IF output = <<>> THEN ""
    ELSE LET out == Head(output)
         IN (IF out.Type # "message" THEN "" ELSE FragmentsText(out.Content))
                \o OutputText(Tail(output))

extractOutputText(resp) == OutputText(resp.Output)

LLMRunMetadata(id, status, effort, tokens, started, finished, url) ==
    [ResponseID |-> id, Status |-> status, ReasoningEffort |-> effort,
     TokensIn |-> tokens[1], TokensCached |-> tokens[2], TokensOut |-> tokens[3],
     TokensReasoning |-> tokens[4], TokensTotal |-> tokens[5],
     StartedAt |-> started, FinishedAt |-> finished,
     Elapsed |-> finished - started, ResponseLogsUrl |-> url]
\* LLMRunMetadata{}
EmptyMetadata == LLMRunMetadata("", "", "", <<0, 0, 0, 0, 0>>, 0, 0, "")

\* *resp.Reasoning.Effort with Reasoning set and Effort nil: nil dereference
MetadataFaults(resp) ==
    resp.Reasoning # Nil /\ resp.Reasoning[1].Effort = Nil

\* (faulty variant: the reasoning count is read only when the input details are set)
UsageTokensDetailsTogether(usage) ==
    IF usage = Nil THEN <<0, 0, 0, 0, 0>>
    ELSE LET u == usage[1]
         IN IF u.InputTokensDetails = Nil
            THEN << u.InputTokens, 0, u.OutputTokens, 0, u.TotalTokens >>
            ELSE << u.InputTokens, u.InputTokensDetails[1].CachedTokens, u.OutputTokens,
                    IF u.OutputTokensDetails # Nil
                        THEN u.OutputTokensDetails[1].ReasoningTokens ELSE 0,
                    u.TotalTokens >>

\* the token counts read from resp.Usage: in, cached, out, reasoning, total
UsageTokens(usage) ==
    IF usage = Nil THEN <<0, 0, 0, 0, 0>>
    ELSE LET u == usage[1]
         IN << u.InputTokens,
               IF u.InputTokensDetails # Nil
                   THEN u.InputTokensDetails[1].CachedTokens ELSE 0,
               u.OutputTokens,
               IF u.OutputTokensDetails # Nil
                   THEN u.OutputTokensDetails[1].ReasoningTokens ELSE 0,
               u.TotalTokens >>

\* (faulty variant: StartedAt is read at extraction, not taken from startTime)
ExtractLLMRunMetadataStartsNow(resp, start, t) ==
    LLMRunMetadata(resp.ID, resp.Status,
                   IF resp.Reasoning # Nil THEN resp.Reasoning[1].Effort[1] ELSE "",
                   UsageTokens(resp.Usage),
                   t * 1000, t * 1000,
                   "https://platform.openai.com/logs/" \o resp.ID)

\* ExtractLLMRunMetadata(resp, startTime), called at wall-clock time t
\* (timestamps are epoch milliseconds)
ExtractLLMRunMetadata(resp, start, t) ==
    LLMRunMetadata(resp.ID, resp.Status,
                   IF resp.Reasoning # Nil THEN resp.Reasoning[1].Effort[1] ELSE "",
                   UsageTokens(resp.Usage),
                   start * 1000, t * 1000,
                   "https://platform.openai.com/logs/" \o resp.ID)

\* the usage log of SendPromptReturnResponse reads OutputTokensDetails under
\* the InputTokensDetails != nil test: nil dereference when only the latter is set
UsageLogFaults(resp) ==
    /\ resp.Usage # Nil
    /\ resp.Usage[1].InputTokensDetails # Nil
    /\ resp.Usage[1].OutputTokensDetails = Nil

\* json.Unmarshal([]byte(responseText), &openAIResponse) returns nil
UnmarshalOK(text) == text = JSONText

\* ------------------------------------------- waitForResponseCompletion
GetDurs == 1..MaxGetDur

\* timeout > 0 selects the deadline
UseTimeoutNonNegative(t) == t >= 0
UseTimeout(t) == t > 0

\* time.Now().After(deadline), when a deadline is in use
\* (faulty variant: the timeout is counted from the deadline, not from entry)
TimedOutLate == useTimeout /\ now > deadline + timeout
TimedOut == useTimeout /\ now > deadline

\* the switch on resp.Status that ends or continues the loop
StatusClassQueuedDone(status) ==
    CASE status \in {"completed", "incomplete", "", "queued"} -> "success"
      [] status \in {"failed", "cancelled", "expired"} -> "failure"
      [] OTHER -> "pending"
StatusClass(status) ==
    CASE status \in {"completed", "incomplete", ""} -> "success"
      [] status \in {"failed", "cancelled", "expired"} -> "failure"
      [] OTHER -> "pending"

\* the response returned with the timeout error: lastResp.Status = "timeout"
TimeoutResponseUnmarked(resp) == resp
TimeoutResponse(resp) == [resp EXCEPT !.Status = "timeout"]

\* xerr.NewError(fmt.Errorf("timeout"), msg, timeout)
TimeoutError(t) == NewError("timeout", "Response polling timed out", "timeout", t)

\* xerr.NewError(fmt.Errorf("%s", resp.Status), msg, resp.Error)
JobFailureErrorNoPayload(resp) ==
    NewError(resp.Status, "Response ended with status", "payload", "nil")
JobFailureError(resp) ==
    NewError(resp.Status, "Response ended with status", "payload", resp.Error)

\* function entry: the locals before the loop
WaitEnter(id, interval, t) ==
    /\ responseID' = id
    /\ waitInterval' = interval
    /\ timeout' = t
    /\ useTimeout' = UseTimeout(t)
    /\ deadline' = IF UseTimeout(t) THEN now + t ELSE 0
    /\ poll' = 0
    /\ previousStatus' = ""
    /\ lastResp' = ZeroResponse
    /\ final' = ZeroResponse
    /\ waitErr' = NilError
    /\ sleeps' = 0
    /\ onlyInProgress' = TRUE

\* the loop runs on: no deadline hit (and, without a deadline, within MaxPolls)
CanPoll == pc = "poll" /\ ~TimedOut /\ (useTimeout \/ poll < MaxPolls)

\* deadline passed at the top of an iteration
WaitTimeout ==
    /\ pc = "poll" /\ TimedOut
    /\ lastResp' = TimeoutResponse(lastResp)
    /\ final' = lastResp'
    /\ waitErr' = TimeoutError(timeout)
    /\ pc' = "waitReturned"
    /\ UNCHANGED <<entry, fnVars, getLatency, now, sendVars, callerVars, responseID, waitInterval,
                   timeout, useTimeout, deadline, poll, previousStatus, sleeps,
                   onlyInProgress>>

\* faulty variant of the next action: a failed GET is slept on and retried
WaitGetErrorRetried ==
    /\ CanPoll
    /\ \E kind \in TransportFailures : waitErr' = GetError(kind, responseID)
    /\ now' = now + getLatency + waitInterval
    /\ poll' = poll + 1
    /\ sleeps' = sleeps + 1
    /\ pc' = "poll"
    /\ UNCHANGED <<entry, fnVars, getLatency, sendVars, callerVars, responseID, waitInterval,
                   timeout, useTimeout, deadline, previousStatus, lastResp, final,
                   onlyInProgress>>

\* getResponseByID fails: return lastResp, getErr
WaitGetError ==
    /\ CanPoll
    /\ \E kind \in TransportFailures : waitErr' = GetError(kind, responseID)
    /\ now' = now + getLatency
    /\ poll' = poll + 1
    /\ final' = lastResp
    /\ pc' = "waitReturned"
    /\ UNCHANGED <<entry, fnVars, getLatency, sendVars, callerVars, responseID, waitInterval, timeout,
                   useTimeout, deadline, previousStatus, lastResp, sleeps,
                   onlyInProgress>>

\* one successful GET, then `slept` seconds of sleep
Fetch(resp, slept) ==
    /\ poll' = poll + 1
    /\ now' = now + getLatency + slept
    /\ lastResp' = resp
    /\ previousStatus' = resp.Status
    /\ UNCHANGED <<entry, fnVars, getLatency, sendVars, callerVars, responseID, waitInterval, timeout,
                   useTimeout, deadline>>

\* faulty variant of the next action: the deadline is looked at again when
\* the GET returns, and a late success is turned into the timeout result
WaitGetSuccessDeadlineRechecked ==
    /\ CanPoll
    /\ \E resp \in VendorResponses(responseID) :
          /\ StatusClass(resp.Status) = "success"
          /\ Fetch(resp, 0)
          /\ final' = IF useTimeout /\ now' > deadline THEN TimeoutResponse(resp) ELSE resp
    /\ waitErr' = IF useTimeout /\ now' > deadline THEN TimeoutError(timeout) ELSE NilError
    /\ pc' = "waitReturned"
    /\ UNCHANGED <<sleeps, onlyInProgress>>

\* case "completed", "incomplete", "": return resp, nil
WaitGetSuccess ==
    /\ CanPoll
    /\ \E resp \in VendorResponses(responseID) :
          /\ StatusClass(resp.Status) = "success"
          /\ Fetch(resp, 0)
          /\ final' = resp
    /\ waitErr' = NilError
    /\ pc' = "waitReturned"
    /\ UNCHANGED <<sleeps, onlyInProgress>>

\* case "failed", "cancelled", "expired": return resp, error with resp.Error
WaitGetFailure ==
    /\ CanPoll
    /\ \E resp \in VendorResponses(responseID) :
          /\ StatusClass(resp.Status) = "failure"
          /\ Fetch(resp, 0)
          /\ final' = resp
          /\ waitErr' = JobFailureError(resp)
    /\ pc' = "waitReturned"
    /\ UNCHANGED <<sleeps, onlyInProgress>>

\* faulty variant of the next action: the loop goes on without sleeping
WaitGetPendingNoSleep ==
    /\ CanPoll
    /\ \E resp \in VendorResponses(responseID) :
          /\ StatusClass(resp.Status) = "pending"
          /\ Fetch(resp, 0)
          /\ onlyInProgress' = (onlyInProgress /\ resp.Status = "in_progress")
    /\ pc' = "poll"
    /\ UNCHANGED <<final, waitErr, sleeps>>

\* default: util.WaitForSeconds(waitInterval.Seconds()) and loop
WaitGetPending ==
    /\ CanPoll
    /\ \E resp \in VendorResponses(responseID) :
          /\ StatusClass(resp.Status) = "pending"
          /\ Fetch(resp, waitInterval)
          /\ onlyInProgress' = (onlyInProgress /\ resp.Status = "in_progress")
    /\ sleeps' = sleeps + 1
    /\ pc' = "poll"
    /\ UNCHANGED <<final, waitErr>>

\* a direct call waitForResponseCompletion(apiKey, id, waitInterval, timeout)
InitWait ==
    /\ entry = "waitForResponseCompletion"
    /\ pc = "poll"
    /\ now = 0
    /\ getLatency \in GetDurs
    /\ responseID \in JobIds
    /\ waitInterval \in 1..MaxInterval
    /\ timeout \in -1..MaxTimeout
    /\ useTimeout = UseTimeout(timeout)
    /\ deadline = IF UseTimeout(timeout) THEN now + timeout ELSE 0
    /\ poll = 0
    /\ previousStatus = ""
    /\ lastResp = ZeroResponse
    /\ final = ZeroResponse
    /\ waitErr = NilError
    /\ sleeps = 0
    /\ onlyInProgress = TRUE
    /\ startTime = 0 /\ initial = ZeroResponse /\ createErr = NilError /\ posts = 0
    /\ finalResp = ZeroResponse /\ decoded = {} /\ responseText = ""
    /\ meta = EmptyMetadata /\ sendErr = NilError /\ tailSleeps = 0
    /\ openAIResponse = "zero" /\ llmRunMetadata = <<>> /\ apiErr = NilError
    /\ FnIdle

NextWait ==
    \/ WaitTimeout
    \/ WaitGetError
    \/ WaitGetSuccess
    \/ WaitGetFailure
    \/ WaitGetPending

\* the loop is sequential blocking code: it always takes its next step
SpecWait == InitWait /\ [][NextWait]_vars /\ WF_vars(NextWait)

\* --------------------------------------------- SendPromptReturnResponse
PostDurs == 1..MaxPostDur
Callers == {"UseChatGPTResponsesAPI", "UseChatGPTResponsesAPIWithImage"}

\* case "", "completed": the initial response is final
\* (faulty variants: the empty status polls; "incomplete" does not poll)
IsImmediateStrict(status) == status = "completed"
IsImmediateLoose(status) == status \in {"", "completed", "incomplete"}
IsImmediate(status) == status \in {"", "completed"}

\* metadata returned with waitErr: LLMRunMetadata{ResponseID: initial.ID}
WaitFailedMetadataEmpty(id) == EmptyMetadata
WaitFailedMetadata(id) == [EmptyMetadata EXCEPT !.ResponseID = id]

\* return "", LLMRunMetadata{...}, err
SendReturnError(m, err) ==
    /\ responseText' = ""
    /\ meta' = m
    /\ sendErr' = err
    /\ pc' = "sendReturned"

\* (faulty variant of the lines after the switch: no WaitForSeconds(3))
SendFinishNoTailWait(resp) ==
    /\ finalResp' = resp
    /\ decoded' = decoded \cup {resp.Status}
    /\ IF MetadataFaults(resp) \/ UsageLogFaults(resp)
       THEN /\ pc' = "panic"
            /\ UNCHANGED <<responseText, meta, sendErr, tailSleeps, now>>
       ELSE /\ responseText' = extractOutputText(resp)
            /\ meta' = ExtractLLMRunMetadata(resp, startTime, now)
            /\ sendErr' = NilError
            /\ pc' = "sendReturned"
            /\ UNCHANGED <<tailSleeps, now>>

\* lines after the switch: extraction, usage log, WaitForSeconds(3), return;
\* a nil dereference on the way is a panic and nothing is returned
SendFinish(resp) ==
    /\ finalResp' = resp
    /\ decoded' = decoded \cup {resp.Status}
    /\ IF MetadataFaults(resp) \/ UsageLogFaults(resp)
       THEN /\ pc' = "panic"
            /\ UNCHANGED <<responseText, meta, sendErr, tailSleeps, now>>
       ELSE /\ responseText' = extractOutputText(resp)
            /\ meta' = ExtractLLMRunMetadata(resp, startTime, now)
            /\ sendErr' = NilError
            /\ tailSleeps' = tailSleeps + 1
            /\ now' = now + TailWaitSeconds
            /\ pc' = "sendReturned"

\* json.Marshal(payload) fails inside createResponse: nothing is sent
SubmitMarshalError ==
    /\ pc = "submit"
    /\ startTime' = now
    /\ createErr' = NewError("marshal", "Failed to marshal request payload", "payload", "payload")
    /\ SendReturnError(EmptyMetadata, createErr')
    /\ UNCHANGED <<entry, fnVars, getLatency, now, waitVars, callerVars, initial, posts, finalResp,
                   decoded, tailSleeps>>

\* (faulty variant: a failed POST is sent once more)
SubmitErrorRetried ==
    /\ pc = "submit"
    /\ posts < 2
    /\ startTime' = now
    /\ posts' = posts + 1
    /\ \E d \in PostDurs : now' = now + d
    /\ UNCHANGED <<entry, fnVars, getLatency, waitVars, callerVars, initial, createErr,
                   finalResp, decoded, tailSleeps, responseText, meta, sendErr, pc>>

\* the POST is sent and createResponse returns an error
SubmitError ==
    /\ pc = "submit"
    /\ startTime' = now
    /\ posts' = posts + 1
    /\ \E kind \in TransportFailures, d \in PostDurs :
          /\ now' = now + d
          /\ createErr' = CreateError(kind)
    /\ SendReturnError(EmptyMetadata, createErr')
    /\ UNCHANGED <<entry, fnVars, getLatency, waitVars, callerVars, initial, finalResp, decoded,
                   tailSleeps>>

\* the POST succeeds: initial is the parsed response
SubmitOK ==
    /\ pc = "submit"
    /\ startTime' = now
    /\ posts' = posts + 1
    /\ \E id \in JobIds, d \in PostDurs :
          /\ now' = now + d
          /\ initial' \in VendorResponses(id)
    /\ pc' = "switch"
    /\ UNCHANGED <<entry, fnVars, getLatency, waitVars, callerVars, createErr, finalResp, decoded,
                   responseText, meta, sendErr, tailSleeps>>

\* switch initial.Status, case "", "completed": finalResp = initial
SendImmediate ==
    /\ pc = "switch"
    /\ IsImmediate(initial.Status)
    /\ SendFinish(initial)
    /\ UNCHANGED <<entry, fnVars, getLatency, waitVars, callerVars, startTime, initial, createErr, posts>>

\* switch initial.Status, default: call waitForResponseCompletion(.., 2s, 5min)
SendStartWait ==
    /\ pc = "switch"
    /\ ~IsImmediate(initial.Status)
    /\ WaitEnter(initial.ID, SendWaitInterval, SendWaitTimeout)
    /\ pc' = "poll"
    /\ UNCHANGED <<entry, fnVars, getLatency, now, sendVars, callerVars>>

\* waitErr != nil: return "", LLMRunMetadata{ResponseID: initial.ID}, waitErr
SendWaitFailed ==
    /\ pc = "waitReturned" /\ entry \in Callers
    /\ waitErr # NilError
    /\ SendReturnError(WaitFailedMetadata(initial.ID), waitErr)
    /\ UNCHANGED <<entry, fnVars, getLatency, now, waitVars, callerVars, startTime, initial, createErr,
                   posts, finalResp, decoded, tailSleeps>>

\* waitErr == nil: finalResp = resp
SendWaitDone ==
    /\ pc = "waitReturned" /\ entry \in Callers
    /\ waitErr = NilError
    /\ SendFinish(final)
    /\ UNCHANGED <<entry, fnVars, getLatency, waitVars, callerVars, startTime, initial, createErr, posts>>

\* ------------- UseChatGPTResponsesAPI / UseChatGPTResponsesAPIWithImage
\* metadata pointer returned when SendPromptReturnResponse failed: nil
CallerErrorMetadata(m) == <<>>

\* xerr.NewError(err, "Unable to json.Unmarshal", responseText)
\* (faulty variant: the error carries no context)
DecodeErrorNoText(text) == NewError("unmarshal", "Unable to json.Unmarshal", "nil", "nil")
DecodeError(text) == NewError("unmarshal", "Unable to json.Unmarshal", "text", text)

\* the statements after the call of SendPromptReturnResponse
CallerReturn ==
    /\ pc = "sendReturned"
    /\ IF sendErr # NilError
       THEN /\ openAIResponse' = "zero"
            /\ llmRunMetadata' = CallerErrorMetadata(meta)
            /\ apiErr' = sendErr
       ELSE IF ~UnmarshalOK(responseText)
       THEN /\ openAIResponse' = "zero"
            /\ llmRunMetadata' = <<meta>>
            /\ apiErr' = DecodeError(responseText)
       ELSE /\ openAIResponse' = "decoded"
            /\ llmRunMetadata' = <<meta>>
            /\ apiErr' = NilError
    /\ pc' = "done"
    /\ UNCHANGED <<entry, fnVars, getLatency, now, waitVars, sendVars>>

UseChatGPTResponsesAPI ==
    entry = "UseChatGPTResponsesAPI" /\ CallerReturn

UseChatGPTResponsesAPIWithImage ==
    entry = "UseChatGPTResponsesAPIWithImage" /\ CallerReturn

Init ==
    /\ entry \in Callers
    /\ pc = "submit"
    /\ now = 0
    /\ getLatency \in GetDurs
    /\ responseID = "" /\ waitInterval = 0 /\ timeout = 0
    /\ useTimeout = FALSE /\ deadline = 0 /\ poll = 0
    /\ previousStatus = "" /\ lastResp = ZeroResponse /\ final = ZeroResponse
    /\ waitErr = NilError /\ sleeps = 0 /\ onlyInProgress = TRUE
    /\ startTime = 0 /\ initial = ZeroResponse /\ createErr = NilError /\ posts = 0
    /\ finalResp = ZeroResponse /\ decoded = {} /\ responseText = ""
    /\ meta = EmptyMetadata /\ sendErr = NilError /\ tailSleeps = 0
    /\ openAIResponse = "zero" /\ llmRunMetadata = <<>> /\ apiErr = NilError
    /\ FnIdle

Next ==
    \/ SubmitMarshalError
    \/ SubmitError
    \/ SubmitOK
    \/ SendImmediate
    \/ SendStartWait
    \/ WaitTimeout
    \/ WaitGetError
    \/ WaitGetSuccess
    \/ WaitGetFailure
    \/ WaitGetPending
    \/ SendWaitFailed
    \/ SendWaitDone
    \/ UseChatGPTResponsesAPI
    \/ UseChatGPTResponsesAPIWithImage

Spec == Init /\ [][Next]_vars

\* ------------------------------------------- helper functions on their own
\* no request is in progress: every variable of the client is at its zero value
ClientIdle ==
    /\ now = 0
    /\ getLatency = 1
    /\ responseID = "" /\ waitInterval = 0 /\ timeout = 0
    /\ useTimeout = FALSE /\ deadline = 0 /\ poll = 0
    /\ previousStatus = "" /\ lastResp = ZeroResponse /\ final = ZeroResponse
    /\ waitErr = NilError /\ sleeps = 0 /\ onlyInProgress = TRUE
    /\ startTime = 0 /\ initial = ZeroResponse /\ createErr = NilError /\ posts = 0
    /\ finalResp = ZeroResponse /\ decoded = {} /\ responseText = ""
    /\ meta = EmptyMetadata /\ sendErr = NilError /\ tailSleeps = 0
    /\ openAIResponse = "zero" /\ llmRunMetadata = <<>> /\ apiErr = NilError
clientVars == <<now, getLatency, waitVars, sendVars, callerVars>>

\* property maps with at most MaxProps entries over a few property names and
\* schemas, and the nil map
PropertyMaps ==
    LET SchemaKeys ==
            { <<"a", "m", "o", "u", "n", "t">>, <<"d", "a", "t", "e">>,
              <<"c", "a", "t", "e", "g", "o", "r", "y">>, <<"c", "a", "t">>,
              <<"D", "a", "t", "e">> }
        PropSchemas == { [type |-> "string"], [type |-> "number"] }
    IN  {NilMap} \cup
            UNION { { GoMap(FALSE, kv) : kv \in [ks -> PropSchemas] } :
                    ks \in { k \in SUBSET SchemaKeys : Cardinality(k) <= MaxProps } }

\* one call StrictObj(props); range visits the keys in any order
StrictObjCall ==
    /\ Len(strictCalls) < MaxCalls
    /\ \E visited \in RangeOrders(props) :
          strictCalls' = Append(strictCalls, StrictObj(props, visited))
    /\ UNCHANGED <<entry, pc, batchVars, reportVars, clientVars, props, payloadVars, extractVars, parseVars,
                   bodyVars>>

InitStrict ==
    /\ entry = "StrictObj" /\ pc = "call"
    /\ ClientIdle /\ BatchIdle /\ ReportIdle /\ PayloadIdle /\ ExtractIdle /\ ParseIdle /\ BodyIdle
    /\ props \in PropertyMaps
    /\ strictCalls = <<>>

SpecStrict == InitStrict /\ [][StrictObjCall]_vars

\* --------------------------------------------------- the request payload
TextFormat(type, name, schema, strict) ==
    [Type |-> type, Name |-> name, Schema |-> schema, Strict |-> strict]
TextOptions(format, verbosity) == [Format |-> format, Verbosity |-> verbosity]
TextAsPlain(verbosity) == TextOptions(TextFormat("text", "", Nil, Nil), verbosity)
TextAsJSONObject == TextOptions(TextFormat("json_object", "", Nil, Nil), "")
TextAsJSONSchema(name, schema, strict) ==
    TextOptions(TextFormat("json_schema", name, Ptr(schema), Ptr(strict)), "")

InputItem(role, content) == [Role |-> role, Content |-> content]
InputParameters(mdl, instr, maxTok, input, prevID, reasoning, temp, text, choice, tools) ==
    [OpenAIAPIKey |-> "OPENAI_API_KEY", Model |-> mdl, Instructions |-> instr,
     MaxOutputTokens |-> maxTok, Input |-> input, PreviousResponseID |-> prevID,
     Reasoning |-> reasoning, Temperature |-> temp, Text |-> text,
     ToolChoice |-> choice, Tools |-> tools]

\* schema := StrictObj(schemaProperties); textOptions := TextAsJSONSchema(...)
\* (faulty variant: the schema lets additional properties through)
CallerTextOptionsOpen(schemaProperties, visited) ==
    TextAsJSONSchema("schema-name",
        [StrictObj(schemaProperties, visited) EXCEPT !.additionalProperties = TRUE],
        TRUE)
CallerTextOptions(schemaProperties, visited) ==
    TextAsJSONSchema("schema-name", StrictObj(schemaProperties, visited), TRUE)

\* the InputParameters both exported callers build; userContent is the user
\* item's content (a string, or the text + image parts)
CallerInputParameters(a, userContent, visited) ==
    InputParameters(a.model, a.instructions, Ptr(a.maxOutputTokens),
        << InputItem("developer", a.developerMessage), InputItem("user", userContent) >>,
        "", Ptr(Reasoning(Ptr(a.reasoningEffort))), Ptr(1),
        Ptr(CallerTextOptions(a.schemaProperties, visited)),
        IF a.toolChoice # Nil THEN a.toolChoice ELSE Ptr("auto"),
        IF Len(a.tools) > 0 THEN a.tools ELSE <<>>)

\* requestPayload{...} built by SendPromptReturnResponse
\* (faulty variant: the chaining reference is not passed on)
BuildRequestPayloadUnchained(in) ==
    [Model |-> in.Model, Reasoning |-> in.Reasoning, Store |-> TRUE,
     PreviousResponseID |-> "", Instructions |-> in.Instructions,
     Input |-> in.Input, Temperature |-> in.Temperature,
     MaxOutputTokens |-> in.MaxOutputTokens, Background |-> TRUE,
     Text |-> in.Text, Tools |-> in.Tools, ToolChoice |-> in.ToolChoice]
BuildRequestPayload(in) ==
    [Model |-> in.Model, Reasoning |-> in.Reasoning, Store |-> TRUE,
     PreviousResponseID |-> in.PreviousResponseID, Instructions |-> in.Instructions,
     Input |-> in.Input, Temperature |-> in.Temperature,
     MaxOutputTokens |-> in.MaxOutputTokens, Background |-> TRUE,
     Text |-> in.Text, Tools |-> in.Tools, ToolChoice |-> in.ToolChoice]

\* arguments the exported callers are explored with
CallerArgs ==
    [model : {"gpt-5-nano"}, reasoningEffort : {"minimal", "high"},
     instructions : {"extract the receipt"}, developerMessage : {"dev"},
     userMessage : {"user"}, imageDataURL : {"data:image/png;base64,AAAA"},
     schemaProperties : PropertyMaps, maxOutputTokens : {0, 4000},
     tools : {<<>>, <<"web_search">>}, toolChoice : {Nil, Ptr("required")}]

\* a schema a direct caller may write by hand: nothing is required
HandWrittenSchema ==
    [type |-> "object",
     properties |-> GoMap(FALSE, [k \in {<<"d", "a", "t", "e">>} |-> [type |-> "string"]]),
     additionalProperties |-> TRUE, required |-> <<>>]
\* InputParameters a direct caller of SendPromptReturnResponse may pass
DirectInputParameters ==
    { InputParameters("gpt-5-nano", instr, maxTok, << InputItem("user", "hello") >>,
                      prev, reasoning, temp, text, choice, tools) :
        instr \in {"", "be brief"}, maxTok \in {Nil, Ptr(100)},
        prev \in {"", "resp_0"}, reasoning \in {Nil, Ptr(Reasoning(Ptr("low")))},
        temp \in {Nil, Ptr(1)},
        text \in {Nil, Ptr(TextAsPlain("low")), Ptr(TextAsJSONObject),
                  Ptr(TextAsJSONSchema("by-hand", HandWrittenSchema, FALSE)),
                  Ptr(TextAsJSONSchema("strict", StrictObj(EmptyMap, <<>>), TRUE))},
        choice \in {Nil, Ptr("auto")}, tools \in {<<>>, <<"web_search">>} }

\* UseChatGPTResponsesAPI up to its call of SendPromptReturnResponse
UseChatGPTResponsesAPIBuild ==
    /\ entry = "UseChatGPTResponsesAPI" /\ pc = "call"
    /\ \E visited \in RangeOrders(callArgs.schemaProperties) :
          inputParameters' = CallerInputParameters(callArgs, callArgs.userMessage, visited)
    /\ pc' = "send"
    /\ UNCHANGED <<entry, batchVars, reportVars, clientVars, bodyVars, strictVars, extractVars, parseVars, callArgs,
                   requestPayload>>

\* UseChatGPTResponsesAPIWithImage up to its call of SendPromptReturnResponse
UseChatGPTResponsesAPIWithImageBuild ==
    /\ entry = "UseChatGPTResponsesAPIWithImage" /\ pc = "call"
    /\ \E visited \in RangeOrders(callArgs.schemaProperties) :
          inputParameters' = CallerInputParameters(callArgs,
              << [type |-> "input_text", text |-> callArgs.userMessage],
                 [type |-> "input_image", image_url |-> callArgs.imageDataURL] >>,
              visited)
    /\ pc' = "send"
    /\ UNCHANGED <<entry, batchVars, reportVars, clientVars, bodyVars, strictVars, extractVars, parseVars, callArgs,
                   requestPayload>>

\* SendPromptReturnResponse up to createResponse(apiKey, requestPayload)
SendPromptBuildPayload ==
    /\ pc = "send"
    /\ requestPayload' = Ptr(BuildRequestPayload(inputParameters))
    /\ pc' = "createResponse"
    /\ UNCHANGED <<entry, batchVars, reportVars, clientVars, bodyVars, strictVars, extractVars, parseVars, callArgs,
                   inputParameters>>

\* a call of one of the three exported entry points
InitPayload ==
    /\ ClientIdle /\ BatchIdle /\ ReportIdle /\ StrictIdle /\ ExtractIdle /\ ParseIdle /\ BodyIdle
    /\ requestPayload = Nil
    /\ \/ /\ entry \in Callers /\ pc = "call"
          /\ callArgs \in CallerArgs
          /\ inputParameters = Nil
       \/ /\ entry = "SendPromptReturnResponse" /\ pc = "send"
          /\ callArgs = Nil
          /\ inputParameters \in DirectInputParameters

NextPayload ==
    \/ UseChatGPTResponsesAPIBuild
    \/ UseChatGPTResponsesAPIWithImageBuild
    \/ SendPromptBuildPayload

SpecPayload == InitPayload /\ [][NextPayload]_vars

\* ------------------------------------------------- the two extractors
\* sequences over set of length at most n
SeqsUpTo(set, n) == UNION { [1..k -> set] : k \in 0..n }

\* response envelopes extractOutputText is explored with: messages of up to
\* MaxFrags fragments and reasoning items
TextResponses ==
    LET Fragments ==
            { Frag("output_text", "a"), Frag("output_text", "b"), Frag("output_text", ""),
              Frag("refusal", "x") }
        OutputItems ==
            { Item("message", c) : c \in SeqsUpTo(Fragments, MaxFrags) }
            \cup { Item("reasoning", c) : c \in {<<>>, <<Frag("output_text", "a")>>} }
    IN  { responseObject("resp_1", "completed", Body(o, Nil, Nil), "nil") :
                o \in SeqsUpTo(OutputItems, MaxItems) }

\* extractOutputText(resp) called by itself
ExtractText ==
    /\ entry = "extractOutputText" /\ pc = "call"
    /\ extracted' = Ptr(extractOutputText(extractResp))
    /\ pc' = "returned"
    /\ UNCHANGED <<entry, batchVars, reportVars, clientVars, bodyVars, strictVars, payloadVars, parseVars, extractResp,
                   extractStart>>

\* terminal responses ExtractLLMRunMetadata is explored with: usage blocks with
\* token counts up to MaxTokens or none, reasoning blocks with or without effort
MetadataResponses ==
    LET UsageBlocks ==
            {Nil} \cup
            { Ptr(usageBlock(in, cached, out, reasoning, total)) :
                in \in 0..MaxTokens, out \in 0..MaxTokens, total \in 0..MaxTokens,
                cached \in {Nil} \cup { Ptr(inputTokensDetails(n)) : n \in 0..MaxTokens },
                reasoning \in {Nil} \cup { Ptr(outputTokensDetails(n)) : n \in 0..MaxTokens } }
        ReasoningBlocks ==
            {Nil, Ptr(Reasoning(Nil))} \cup { Ptr(Reasoning(Ptr(e))) : e \in {"minimal", "high"} }
    IN  { responseObject(id, st, Body(OutJSON, u, r), "nil") :
                id \in {"resp_1", "resp_2"}, st \in {"completed", "incomplete", "failed"},
                u \in UsageBlocks, r \in ReasoningBlocks }

\* ExtractLLMRunMetadata(resp, startTime) called by itself, at any reading
\* of the clock
ExtractMetadata ==
    /\ entry = "ExtractLLMRunMetadata" /\ pc = "call"
    /\ now' \in 0..MaxClock
    /\ IF MetadataFaults(extractResp)
       THEN pc' = "panic" /\ UNCHANGED extracted
       ELSE /\ extracted' = Ptr(ExtractLLMRunMetadata(extractResp, extractStart, now'))
            /\ pc' = "returned"
    /\ UNCHANGED <<entry, batchVars, reportVars, getLatency, waitVars, sendVars, callerVars, bodyVars, strictVars,
                   payloadVars, parseVars, extractResp, extractStart>>

InitExtract ==
    /\ pc = "call"
    /\ ClientIdle /\ BatchIdle /\ ReportIdle /\ StrictIdle /\ PayloadIdle /\ ParseIdle /\ BodyIdle
    /\ extracted = Nil
    /\ \/ /\ entry = "extractOutputText" /\ extractResp \in TextResponses
          /\ extractStart = 0
       \/ /\ entry = "ExtractLLMRunMetadata" /\ extractResp \in MetadataResponses
          /\ extractStart \in 0..MaxClock

NextExtract ==
    \/ ExtractText
    \/ ExtractMetadata

SpecExtract == InitExtract /\ [][NextExtract]_vars

\* ---------------------------------------------------- ParseModelSnapshot
Whitespace == {" ", "\t"}
DigitVal(c) == IndexOf(Digits, c) - 1

RECURSIVE TrimLeft(_)
TrimLeft(str) ==
    IF str # <<>> /\ Head(str) \in Whitespace THEN TrimLeft(Tail(str)) ELSE str
RECURSIVE TrimRight(_)
TrimRight(str) ==
    IF str # <<>> /\ str[Len(str)] \in Whitespace
    THEN TrimRight(SubSeq(str, 1, Len(str) - 1)) ELSE str
\* strings.TrimSpace
TrimSpace(str) == TrimRight(TrimLeft(str))

\* days of month mo of year y, as time.Parse validates the day
DaysIn(mo, y) ==
    IF mo = 2 THEN (IF y % 4 = 0 /\ (y % 100 # 0 \/ y % 400 = 0) THEN 29 ELSE 28)
    ELSE IF mo \in {4, 6, 9, 11} THEN 30 ELSE 31

\* time.Parse("2006-01-02", str) returns a nil error
IsDate(str) ==
    /\ Len(str) = 10
    /\ \A i \in {1, 2, 3, 4, 6, 7, 9, 10} : str[i] \in Range(Digits)
    /\ str[5] = "-" /\ str[8] = "-"
    /\ LET y == 1000 * DigitVal(str[1]) + 100 * DigitVal(str[2])
                    + 10 * DigitVal(str[3]) + DigitVal(str[4])
           mo == 10 * DigitVal(str[6]) + DigitVal(str[7])
           d == 10 * DigitVal(str[9]) + DigitVal(str[10])
       IN mo \in 1..12 /\ d >= 1 /\ d <= DaysIn(mo, y)

\* strings.LastIndex(str, "-"), counted from 1; 0 when there is none
LastDash(str) ==
    IF \E i \in DOMAIN str : str[i] = "-"
    THEN CHOOSE i \in DOMAIN str : str[i] = "-" /\ \A j \in DOMAIN str : str[j] = "-" => j <= i
    ELSE 0

\* ParseModelSnapshot(model) = <<base, snapshot>>
\* (faulty variant: the character before the date is not required to be '-')
ParseModelSnapshotAnySeparator(mdl) ==
    LET m == TrimSpace(mdl)
    IN IF Len(m) >= 11 /\ IsDate(SubSeq(m, Len(m) - 9, Len(m)))
       THEN << SubSeq(m, 1, Len(m) - 11), SubSeq(m, Len(m) - 9, Len(m)) >>
       ELSE << m, <<>> >>
\* (faulty variant: the fallback takes any 10 characters after the last dash)
ParseModelSnapshotAnyCandidate(mdl) ==
    LET m == TrimSpace(mdl)
        tail == SubSeq(m, Len(m) - 9, Len(m))
        lastDash == LastDash(m)
        candidate == SubSeq(m, lastDash + 1, Len(m))
    IN IF Len(m) >= 11 /\ IsDate(tail) /\ m[Len(m) - 10] = "-"
          THEN << SubSeq(m, 1, Len(m) - 11), tail >>
       ELSE IF lastDash = 0 THEN << m, <<>> >>
       ELSE IF Len(candidate) # 10 THEN << m, <<>> >>
       ELSE << SubSeq(m, 1, lastDash - 1), candidate >>
ParseModelSnapshot(mdl) ==
    LET m == TrimSpace(mdl)
        tail == SubSeq(m, Len(m) - 9, Len(m))
        lastDash == LastDash(m)
        candidate == SubSeq(m, lastDash + 1, Len(m))
    IN IF Len(m) >= 11 /\ IsDate(tail) /\ m[Len(m) - 10] = "-"
          THEN << SubSeq(m, 1, Len(m) - 11), tail >>
       ELSE IF lastDash = 0 THEN << m, <<>> >>
       ELSE IF Len(candidate) # 10 THEN << m, <<>> >>
       ELSE IF IsDate(candidate) THEN << SubSeq(m, 1, lastDash - 1), candidate >>
       ELSE << m, <<>> >>

\* model names the function is explored with: a base, a tail, and whitespace
\* before and after
ModelStrings ==
    LET ModelBases == { <<>>, <<"g">>, <<"o", "3">>, <<"g", "p", "t", "-", "5", "-", "n", "a", "n", "o">> }
        ModelTails ==
            { <<>>,
              <<"-", "r", "c", "1">>,
              <<"-", "2", "0", "2", "5", "-", "0", "8", "-", "0", "7">>,
              <<"-", "2", "0", "2", "4", "-", "0", "2", "-", "2", "9">>,
              <<"-", "2", "0", "2", "5", "-", "0", "2", "-", "2", "9">>,
              <<"-", "2", "0", "2", "5", "-", "1", "3", "-", "0", "1">>,
              <<"-", "2", "0", "2", "5", "-", "0", "0", "-", "1", "0">>,
              <<"-", "2", "0", "2", "5", "-", "0", "4", "-", "3", "1">>,
              <<"-", "2", "0", "2", "5", "-", "0", "8", "-", "0", "0">>,
              <<"x", "2", "0", "2", "5", "-", "0", "8", "-", "0", "7">>,
              <<"-", "2", "0", "2", "5", "-", "0", "8", "-", "7">>,
              <<"-", "2", "0", "a", "5", "-", "0", "8", "-", "0", "7">>,
              <<"-", "1", "2", "3", "4", "5", "6", "7", "8", "9", "0">>,
              <<"-", "-", "2", "0", "2", "5", "-", "0", "8", "-", "0", "7">>,
              <<"2", "0", "2", "5", "-", "0", "8", "-", "0", "7">> }
        Paddings == SeqsUpTo(Whitespace, MaxPad)
    IN  { lead \o b \o t \o trail :
                lead \in Paddings, b \in ModelBases, t \in ModelTails, trail \in Paddings }

\* one call ParseModelSnapshot(model)
ParseModelSnapshotCall ==
    /\ entry = "ParseModelSnapshot" /\ pc = "call"
    /\ parsed' = ParseModelSnapshot(model)
    /\ pc' = "returned"
    /\ UNCHANGED <<entry, batchVars, reportVars, clientVars, bodyVars, strictVars, payloadVars, extractVars, model>>

InitParse ==
    /\ entry = "ParseModelSnapshot" /\ pc = "call"
    /\ ClientIdle /\ BatchIdle /\ ReportIdle /\ StrictIdle /\ PayloadIdle /\ ExtractIdle /\ BodyIdle
    /\ model \in ModelStrings
    /\ parsed = Nil

SpecParse == InitParse /\ [][ParseModelSnapshotCall]_vars

\* ---------------------------------------------------------------- GetBody
\* the bytes that encode content with a coding; "identity" is the content itself
Bytes(coding, content) == [coding |-> coding, content |-> content]
\* resp.Body: the bytes on the wire, and whether reading them fails part-way
BodyStream(bytes, readFails) == [bytes |-> bytes, readFails |-> readFails]
HttpResponse(contentEncoding, body) == [ContentEncoding |-> contentEncoding, Body |-> body]

\* io.ReadAll(reader) for the reader GetBody ends up with: <<body, err>>;
\* after an error body holds whatever was read before it
ReadAll(reader, stream) ==
    IF stream.readFails THEN <<Bytes("partial", ""), "read">>
    ELSE IF reader = "body" THEN <<stream.bytes, "nil">>
    ELSE IF stream.bytes.coding = reader
         THEN <<Bytes("identity", stream.bytes.content), "nil">>
    ELSE <<Bytes("partial", ""), "corrupt">>

GetBodyReturn(body, e) == [fault |-> FALSE, body |-> body, e |-> e]
\* a nil []byte
NoBytes == Bytes("identity", "")
GetBodyPanic == [fault |-> TRUE, body |-> NoBytes, e |-> NilError]

\* the statements of GetBody after the switch, reading from reader
GetBodyRead(reader, stream) ==
    LET read == ReadAll(reader, stream)
    IN IF read[2] # "nil"
       THEN GetBodyReturn(read[1], NewError(read[2], "Failed to read response body", "url", "urlStr"))
       ELSE GetBodyReturn(read[1], NilError)

\* GetBody(resp, urlStr)
\* (faulty variant: an unrecognised Content-Encoding is refused)
GetBodyRefusing(resp) ==
    IF resp.ContentEncoding \in {"", "none"} THEN GetBodyRead("body", resp.Body)
    ELSE GetBodyReturn(NoBytes, NewError("encoding", "Unsupported Content-Encoding", "url", "urlStr"))
GetBody(resp) ==
    CASE resp.ContentEncoding = "gzip" ->
            \* reader, err := gzip.NewReader(resp.Body) declares a new reader
            \* inside the case: the reader passed to io.ReadAll is still nil
            IF resp.Body.bytes.coding # "gzip"
            THEN GetBodyReturn(NoBytes, NewError("gzip", "Unable to get gzip reader", "url", "urlStr"))
            ELSE GetBodyPanic
      [] resp.ContentEncoding = "deflate" -> GetBodyRead("deflate", resp.Body)
      [] resp.ContentEncoding = "br" -> GetBodyRead("br", resp.Body)
      [] resp.ContentEncoding \in {"", "none"} -> GetBodyRead("body", resp.Body)
      [] OTHER -> GetBodyRead("body", resp.Body)

\* responses GetBody is explored with: every header value with every coding
\* of the body, whether or not they agree
HttpResponses ==
    LET ContentEncodings == {"gzip", "deflate", "br", "", "none", "zstd", "GZIP", "compress"}
        Codings == {"identity", "gzip", "deflate", "br"}
        Contents == {"{}", JSONText, "<html>"}
    IN  { HttpResponse(h, BodyStream(Bytes(c, t), f)) :
                h \in ContentEncodings, c \in Codings, t \in Contents, f \in BOOLEAN }

\* one call GetBody(resp, urlStr)
GetBodyCall ==
    /\ entry = "GetBody" /\ pc = "call"
    /\ gotBody' = GetBody(httpResp)
    /\ pc' = IF gotBody'.fault THEN "panic" ELSE "returned"
    /\ UNCHANGED <<entry, batchVars, reportVars, clientVars, strictVars, payloadVars, extractVars, parseVars,
                   httpResp, statusCode, exchanged>>

\* resp.StatusCode != http.StatusOK
\* (faulty variant: any status of the 2xx class passes)
StatusIsFailureNot2xx(code) == code < 200 \/ code > 299
StatusIsFailure(code) == code # 200

\* json.Unmarshal(respBody, &parsed) and the return after it
DecodeEnvelope(body) ==
    IF body.content = "<html>"
    THEN [fault |-> FALSE, parsed |-> FALSE,
          e |-> NewError("decode", "Failed to decode response body", "nil", NoBytes)]
    ELSE [fault |-> FALSE, parsed |-> TRUE, e |-> NilError]

\* createResponse from the reply of client.Do on: the body is read first
createResponse(resp, code) ==
    LET got == GetBody(resp)
    IN IF got.fault THEN [fault |-> TRUE, parsed |-> FALSE, e |-> NilError]
       ELSE IF got.e # NilError THEN [fault |-> FALSE, parsed |-> FALSE, e |-> got.e]
       ELSE IF StatusIsFailure(code)
       THEN [fault |-> FALSE, parsed |-> FALSE,
             e |-> NewError("status", "API error from /v1/responses", "body", got.body)]
       ELSE DecodeEnvelope(got.body)

\* getResponseByID from the reply of client.Do on: a reply that is not 200 is
\* read with io.ReadAll(resp.Body), any other with GetBody
getResponseByID(resp, code) ==
    LET raw == ReadAll("body", resp.Body)
        got == GetBody(resp)
    IN IF StatusIsFailure(code)
       THEN [fault |-> FALSE, parsed |-> FALSE,
             e |-> IF raw[2] # "nil"
                   THEN NewError(raw[2], "Failed to read response body", "nil", NoBytes)
                   ELSE NewError("status", "API error from GET /v1/responses/{id}",
                                 "body", raw[1])]
       ELSE IF got.fault THEN [fault |-> TRUE, parsed |-> FALSE, e |-> NilError]
       ELSE IF got.e # NilError THEN [fault |-> FALSE, parsed |-> FALSE, e |-> got.e]
       ELSE DecodeEnvelope(got.body)

\* one call of createResponse or getResponseByID, from the reply on
ExchangeCall ==
    /\ entry \in {"createResponse", "getResponseByID"} /\ pc = "call"
    /\ exchanged' = IF entry = "createResponse" THEN createResponse(httpResp, statusCode)
                                                ELSE getResponseByID(httpResp, statusCode)
    /\ pc' = IF exchanged'.fault THEN "panic" ELSE "returned"
    /\ UNCHANGED <<entry, batchVars, reportVars, clientVars, strictVars, payloadVars, extractVars, parseVars,
                   httpResp, statusCode, gotBody>>

InitBody ==
    /\ pc = "call"
    /\ ClientIdle /\ BatchIdle /\ ReportIdle /\ StrictIdle /\ PayloadIdle /\ ExtractIdle /\ ParseIdle
    /\ httpResp \in HttpResponses
    /\ gotBody = Nil /\ exchanged = Nil
    /\ \/ entry = "GetBody" /\ statusCode = 200
       \/ /\ entry \in {"createResponse", "getResponseByID"}
          /\ statusCode \in {200, 201, 202, 204, 301, 400, 404, 429, 500}

NextBody ==
    \/ GetBodyCall
    \/ ExchangeCall

SpecBody == InitBody /\ [][NextBody]_vars

\* ------------------------------------------- receipt pipeline, batch mode
\* isAllowedImageExt(ext): lower-cased, ext is .jpg, .jpeg or .png
isAllowedImageExt(ext) ==
    LET lower == [i \in 1..Len(ext) |->
                    IF ext[i] \in Range(Uppers) THEN Lowers[IndexOf(Uppers, ext[i])]
                    ELSE ext[i]]
    IN lower \in { <<".", "j", "p", "g">>, <<".", "j", "p", "e", "g">>, <<".", "p", "n", "g">> }

\* listImagesInDir: the entries that are not directories and carry an image
\* extension (filepath.Ext: from the last dot on), sorted with sort.Strings.
\* The paths are the names behind one directory prefix, which is left out.
listImagesInDir(entries) ==
    LET Ext(name) ==
            LET dots == { i \in DOMAIN name : name[i] = "." }
            IN IF dots = {} THEN <<>>
               ELSE SubSeq(name, CHOOSE i \in dots : \A j \in dots : j <= i, Len(name))
        IsImage(ent) == ~ent.IsDir /\ isAllowedImageExt(Ext(ent.Name))
        kept == SelectSeq(entries, IsImage)
    IN SortStrings([i \in 1..Len(kept) |-> kept[i].Name])

\* the steps of processOneImage that can end it with an error
ProcessFailures == {"ocr", "read", "prices", "orig", "analysis", "mismatch", "marshal", "write"}

\* processOneImage, by the first of its steps that fails ("ok": none does):
\* the error returned and whether os.WriteFile was reached
processOneImage(met) ==
    [ e |-> CASE met = "ok" -> NilError
              [] met = "read" -> NewError("read", "read OCR text file", "path", "ocr.txt")
              [] met = "mismatch" ->
                    NewError("totals mismatch", "receipt totals mismatch", "path", "runDir")
              [] met = "marshal" ->
                    NewError("marshal", "marshal receipt analysis to JSON", "path", "runDir")
              [] met = "write" ->
                    NewError("write", "write receipt-analysis.json file", "path",
                             "receipt-analysis.json")
              [] OTHER -> NewError(met, "", "nil", "nil"),
      writeFile |-> met \in {"ok", "write"} ]

\* one iteration of main's loop over imagesToProcess
MainLoopIteration ==
    /\ entry = "main" /\ pc = "batch"
    /\ Len(attempted) < Len(imagesToProcess)
    /\ \E met \in {"ok"} \cup ProcessFailures :
          LET imgPath == imagesToProcess[Len(attempted) + 1]
              res == processOneImage(met)
          IN /\ attempted' = Append(attempted, [image |-> imgPath, met |-> met])
             /\ written' = IF res.writeFile THEN written \cup {imgPath} ELSE written
             /\ IF res.e # NilError
                THEN skippedCount' = skippedCount + 1 /\ UNCHANGED processedCount
                ELSE processedCount' = processedCount + 1 /\ UNCHANGED skippedCount
    /\ UNCHANGED <<entry, pc, imagesToProcess, reportVars, clientVars, strictVars, payloadVars,
                   extractVars, parseVars, bodyVars>>

\* the LLM analysis of an image ends in a nil dereference inside
\* SendPromptReturnResponse (usage log, reasoning effort) or GetBody (gzip):
\* nothing recovers the panic and the program dies
MainLoopPanics ==
    /\ entry = "main" /\ pc = "batch"
    /\ Len(attempted) < Len(imagesToProcess)
    /\ attempted' = Append(attempted, [image |-> imagesToProcess[Len(attempted) + 1],
                                       met |-> "panic"])
    /\ pc' = "panic"
    /\ UNCHANGED <<entry, imagesToProcess, processedCount, skippedCount, written, reportVars,
                   clientVars, strictVars, payloadVars, extractVars, parseVars, bodyVars>>

\* the loop is over ("Done. Processed: ..., skipped: ..."); with no image at
\* all main has left through os.Exit(0) before the loop
MainDone ==
    /\ entry = "main" /\ pc = "batch"
    /\ Len(attempted) = Len(imagesToProcess)
    /\ pc' = IF imagesToProcess = <<>> THEN "exit" ELSE "batchDone"
    /\ UNCHANGED <<entry, batchVars, reportVars, clientVars, strictVars, payloadVars,
                   extractVars, parseVars, bodyVars>>

\* main called on a directory of up to MaxEntries entries, read in any order
InitBatch ==
    /\ entry = "main" /\ pc = "batch"
    /\ ClientIdle /\ ReportIdle
    /\ StrictIdle /\ PayloadIdle /\ ExtractIdle /\ ParseIdle /\ BodyIdle
    /\ \E entries \in SeqsUpTo(
              { [Name |-> <<"a", ".", "j", "p", "g">>, IsDir |-> FALSE],
                [Name |-> <<"B", ".", "P", "N", "G">>, IsDir |-> FALSE],
                [Name |-> <<"b", ".", "j", "p", "e", "g">>, IsDir |-> FALSE],
                [Name |-> <<"c", ".", "t", "x", "t">>, IsDir |-> FALSE],
                [Name |-> <<"d", ".", "p", "n", "g">>, IsDir |-> TRUE] }, MaxEntries) :
          /\ \A i, j \in DOMAIN entries : i # j => entries[i] # entries[j]
          /\ imagesToProcess = listImagesInDir(entries)
    /\ attempted = <<>> /\ written = {}
    /\ processedCount = 0 /\ skippedCount = 0

NextBatch ==
    \/ MainLoopIteration
    \/ MainLoopPanics
    \/ MainDone

SpecBatch == InitBatch /\ [][NextBatch]_vars

\* ------------------------------------------------- buildCategoryRows
RECURSIVE SumAmounts(_)
\* otherAmount: the loop adding up row.Amount over rest
SumAmounts(rest) ==
    IF rest = <<>> THEN 0 ELSE Head(rest).Amount + SumAmounts(Tail(rest))

RECURSIVE SortedRows(_, _)
\* the rows built by ranging over the map, after sort.Slice by Amount
\* descending: one row per key in aggs; the map is visited in any order and
\* the sort is not stable, so rows of equal Amount come in any order
SortedRows(aggs, keys) ==
    IF keys = {} THEN {<<>>}
    ELSE UNION { { <<[Key |-> aggs[k].Key, Amount |-> aggs[k].Amount]>> \o tail :
                       tail \in SortedRows(aggs, keys \ {k}) } :
                 k \in { k \in keys : \A o \in keys : aggs[o].Amount <= aggs[k].Amount } }

\* (faulty variant: the rows beyond the limit are cut off, not grouped)
buildCategoryRowsCutOff(sorted, limit) ==
    LET m == IF limit < 3 THEN 3 ELSE limit
    IN IF Len(sorted) > m THEN SubSeq(sorted, 1, m) ELSE sorted

\* buildCategoryRows from the sorted rows on: a maxRows below 3 counts as 3,
\* and with more rows than that the rows from position maxRows on are
\* replaced by one "other" row holding their sum.
\* Percent, BarPercent and Color of a row are presentation and are left out.
buildCategoryRows(sorted, limit) ==
    LET m == IF limit < 3 THEN 3 ELSE limit
        keep == SubSeq(sorted, 1, m - 1)
        rest == SubSeq(sorted, m, Len(sorted))
    IN IF Len(sorted) > m
       THEN Append(keep, [Key |-> "other", Amount |-> SumAmounts(rest)])
       ELSE sorted

\* buildCategoryRows(categoryAggByKey, totalSpent, maxRows) called by itself
BuildCategoryRowsCall ==
    /\ entry = "buildCategoryRows" /\ pc = "call"
    /\ \E sorted \in SortedRows(categoryAggByKey, DOMAIN categoryAggByKey) :
          rows' = Ptr(buildCategoryRows(sorted, maxRows))
    /\ pc' = "returned"
    /\ UNCHANGED <<entry, categoryAggByKey, maxRows, batchVars, clientVars, strictVars,
                   payloadVars, extractVars, parseVars, bodyVars>>

\* aggregates of up to MaxCategories categories, as buildReport keys them
InitReport ==
    /\ entry = "buildCategoryRows" /\ pc = "call"
    /\ ClientIdle /\ BatchIdle
    /\ StrictIdle /\ PayloadIdle /\ ExtractIdle /\ ParseIdle /\ BodyIdle
    /\ \E keys \in SUBSET {"food", "fun", "home", "other", "pets"} :
          /\ Cardinality(keys) <= MaxCategories
          /\ \E amount \in [keys -> -1..MaxAmount] :
                categoryAggByKey = [k \in keys |-> [Key |-> k, Amount |-> amount[k]]]
    /\ maxRows \in 0..MaxRowsArg
    /\ rows = Nil

SpecReport == InitReport /\ [][BuildCategoryRowsCall]_vars

\* ===================================================================
\* Properties

Returned == pc \in {"sendReturned", "done"}
Submitted == posts = 1 /\ createErr = NilError /\ pc # "submit"

\* C1: when the initial POST answers status "completed" or "", no
\* GET /responses/{id} is ever issued, and the initial response itself is the
\* final response from which text and metadata are extracted.
C1_ImmediateNoPolling ==
    (Submitted /\ initial.Status \in {"", "completed"}) =>
        /\ poll = 0
        /\ pc # "switch" => (finalResp = initial /\ decoded = {initial.Status})
        /\ Returned =>
             /\ responseText = extractOutputText(initial)
             /\ meta.ResponseID = initial.ID /\ meta.Status = initial.Status
             /\ sendErr = NilError

C1_Witness ==
    /\ pc = "done" /\ Submitted
    /\ initial.Status = "completed" /\ responseText # ""
    /\ poll = 0 /\ finalResp = initial

\* the terminal set of C2: success, failure and the local pseudo-status
C2_TerminalSet == SuccessStatuses \cup FailureStatuses \cup {"timeout"}

\* C2 as stated: the two extractors are applied only to a response whose
\* status is in {completed, incomplete, failed, cancelled, expired, timeout};
\* an empty status is never decoded.
C2_DecodedOnlyTerminal ==
    \A s \in decoded : s \in C2_TerminalSet

\* C2 amended: the two extractors are applied only to a response whose status
\* is in the terminal set or is empty; an in-progress status is never decoded.
C2_DecodedTerminalOrEmpty ==
    \A s \in decoded : s \in C2_TerminalSet \cup {""}

C2_Witness ==
    pc = "done" /\ poll >= 2 /\ decoded = {""} /\ finalResp = final

\* C3 as stated: for every terminal-success status of the initial response,
\* "completed" and "incomplete" alike, no GET /responses/{id} is issued.
C3_SuccessInitialNoPolling ==
    (Submitted /\ initial.Status \in SuccessStatuses) => poll = 0

\* C3 amended: an initial "completed" causes no GET; an initial "incomplete"
\* enters the polling loop, so at least one GET has been issued when
\* SendPromptReturnResponse returns.
C3_OnlyCompletedSkipsPolling ==
    /\ (Submitted /\ initial.Status = "completed") => poll = 0
    /\ (Submitted /\ initial.Status = "incomplete") =>
          /\ pc # "switch" => responseID = initial.ID
          /\ Returned => poll >= 1

C3_Witness ==
    /\ pc = "done" /\ Submitted /\ initial.Status = "incomplete"
    /\ poll >= 1 /\ sendErr = NilError

WaitReturned == pc = "waitReturned"
\* the loop was ended by what a GET brought back (a terminal status, an error)
EndedByEndpoint == WaitReturned /\ waitErr.err # "timeout"
TimeoutReturned ==
    /\ WaitReturned
    /\ waitErr.err = "timeout" /\ waitErr.msg = "Response polling timed out"
    /\ final.Status = "timeout"

\* C4: with a positive deadline, unless a GET brings back a terminal status
\* (or fails), waitForResponseCompletion eventually returns the timeout error
\* with the returned response's status "timeout"; once it has returned no
\* further GET is issued.
C4_TimeoutEventually ==
    /\ (pc = "poll" /\ timeout > 0) ~> (EndedByEndpoint \/ TimeoutReturned)
    /\ [][WaitReturned => (poll' = poll /\ pc' = pc)]_vars

C4_Witness ==
    TimeoutReturned /\ timeout > 0 /\ poll >= 2 /\ sleeps = poll

\* the run is one of the scenario: interval 2s, deadline 6s, the endpoint
\* answers "in_progress" three times and "completed" the fourth time
C5_Scenario ==
    /\ WaitReturned
    /\ waitInterval = 2 /\ timeout = 6
    /\ onlyInProgress
    /\ \/ waitErr.err = "timeout" /\ poll <= 3
       \/ waitErr = NilError /\ poll = 4 /\ final.Status = "completed"

\* C5 as stated: in the scenario exactly 3 polls precede the poll that
\* observes "completed", and the call returns success, not a timeout.
C5_ThreePollsThenSuccess ==
    C5_Scenario => (poll = 4 /\ final.Status = "completed" /\ waitErr = NilError)

\* C5 amended: in the scenario at most 3 polls are made, all of them observing
\* "in_progress"; the three 2s sleeps use up the 6s deadline, so the fourth GET
\* is never issued and the call returns the timeout error, not success.
C5_ThreePollsThenTimeout ==
    C5_Scenario => (poll <= 3 /\ TimeoutReturned /\ sleeps = poll)

C5_Witness ==
    C5_Scenario /\ poll = 3 /\ TimeoutReturned

\* C6: a poll that fetches "failed", "cancelled" or "expired" ends the loop at
\* once (no sleep follows it, the loop is not re-entered) with a non-nil error
\* whose context is the error payload of that fetched response.
C6_FailureStopsWithPayload ==
    lastResp.Status \in FailureStatuses =>
        /\ WaitReturned
        /\ final = lastResp
        /\ sleeps = poll - 1
        /\ waitErr # NilError /\ waitErr.err = lastResp.Status
        /\ waitErr.ctxKind = "payload" /\ waitErr.ctxValue = lastResp.Error

C6_Witness ==
    /\ WaitReturned /\ lastResp.Status = "expired" /\ poll >= 2
    /\ waitErr.ctxValue = "vendor_error_A"

\* C7: a failed GET ends the loop at once with that error: it is not retried,
\* no sleep follows it, and the response returned is the last one fetched
\* before it, whatever its status was.
C7_GetErrorAborts ==
    waitErr.err \in TransportFailures =>
        /\ WaitReturned
        /\ waitErr = GetError(waitErr.err, responseID)
        /\ final = lastResp
        /\ sleeps = poll - 1

C7_Witness ==
    /\ WaitReturned /\ waitErr.err = "http" /\ poll >= 2
    /\ lastResp.Status = "queued"

\* C8: called with a deadline <= 0, waitForResponseCompletion never produces
\* the timeout result; it returns only when a GET fails or brings back a
\* terminal status.
C8_NoDeadlineNoTimeout ==
    timeout <= 0 =>
        /\ ~useTimeout
        /\ waitErr.err # "timeout" /\ final.Status # "timeout"
        /\ WaitReturned =>
             \/ waitErr.err \in TransportFailures
             \/ poll >= 1 /\ StatusClass(lastResp.Status) # "pending"

C8_Witness ==
    /\ timeout = 0 /\ WaitReturned /\ poll >= 3 /\ sleeps = poll - 1
    /\ waitErr = NilError

\* C9 as stated: the error reported when the polling deadline is exceeded
\* carries the last known job id as its contextual value.
C9_TimeoutErrorCarriesJobId ==
    (Returned /\ sendErr.err = "timeout") => sendErr.ctxKind = "job_id"

\* C9 amended: the error reported when the polling deadline is exceeded
\* carries the configured timeout duration as its contextual value; the job
\* id is returned beside it, in the ResponseID of the metadata record.
C9_TimeoutErrorCarriesDuration ==
    (Returned /\ sendErr.err = "timeout") =>
        /\ sendErr.ctxKind = "timeout" /\ sendErr.ctxValue = SendWaitTimeout
        /\ meta = [EmptyMetadata EXCEPT !.ResponseID = initial.ID]
        /\ meta.ResponseID # ""

C9_Witness ==
    /\ pc = "sendReturned" /\ sendErr.err = "timeout"
    /\ meta.ResponseID = "resp_1" /\ now > SendWaitTimeout

\* C10: when the POST returned an id and the attempt ends in job-failure or
\* timeout, the exported caller returns a metadata record holding that job id
\* together with the error.
C10_CallerKeepsMetadata ==
    (pc = "done" /\ Submitted /\ initial.ID # ""
        /\ apiErr.err \in FailureStatuses \cup {"timeout"}) =>
        /\ llmRunMetadata # <<>>
        /\ llmRunMetadata[1].ResponseID = initial.ID

\* ---------------------------------------------------------------- C12
RECURSIVE Ascending(_)
\* strictly increasing in Go string order
Ascending(keys) ==
    Len(keys) <= 1 \/ (StringLess(keys[1], keys[2]) /\ Ascending(Tail(keys)))

C12_WellFormed(r) ==
    /\ r.type = "object"
    /\ r.properties.kv = props.kv
    /\ r.additionalProperties = FALSE
    /\ Range(r.required) = DOMAIN props.kv
    /\ Len(r.required) = Cardinality(DOMAIN props.kv)
    /\ Ascending(r.required)

\* C12: for every property map P, nil and empty included, StrictObj(P) has
\* type "object", properties equal to P, additionalProperties false, and
\* required = exactly the keys of P in ascending order without duplicate or
\* omission (empty for a nil or empty P); two calls with equal P give equal
\* results.
C12_StrictObjSortedRequired ==
    /\ \A i \in DOMAIN strictCalls : C12_WellFormed(strictCalls[i])
    /\ \A i, j \in DOMAIN strictCalls : strictCalls[i] = strictCalls[j]

\* two calls were made on a map of three or more keys
C12_Witness ==
    /\ entry = "StrictObj"
    /\ Len(strictCalls) = 2
    /\ Cardinality(DOMAIN props.kv) >= 3

\* ---------------------------------------------------------------- C11
\* the payload asks for a JSON schema whose required list is exactly its
\* property keys in increasing order and which admits no additional property
C11_StrictSchema(payload) ==
    /\ payload.Text # Nil
    /\ payload.Text[1].Format.Type = "json_schema"
    /\ payload.Text[1].Format.Schema # Nil
    /\ LET schema == payload.Text[1].Format.Schema[1]
       IN /\ schema.additionalProperties = FALSE
          /\ Range(schema.required) = DOMAIN schema.properties.kv
          /\ Len(schema.required) = Cardinality(DOMAIN schema.properties.kv)
          /\ Ascending(schema.required)

AtCreateResponse == pc = "createResponse" /\ requestPayload # Nil

RECURSIVE C14_MessageFragments(_)
\* the fragments of the message items of an output, in item then fragment order
C14_MessageFragments(output) ==
    IF output = <<>> THEN <<>>
    ELSE (IF Head(output).Type = "message" THEN Head(output).Content ELSE <<>>)
             \o C14_MessageFragments(Tail(output))

RECURSIVE C14_Join(_)
\* the texts of a list of fragments written one after the other
C14_Join(frags) ==
    IF frags = <<>> THEN "" ELSE Head(frags).Text \o C14_Join(Tail(frags))

C14_IsOutputText(f) == f.Type = "output_text" /\ f.Text # ""

\* C14: extractOutputText returns exactly the texts of the fragments of type
\* "output_text" with non-empty text that belong to an item of type "message",
\* concatenated in item order then fragment order with no separator; every
\* other item and fragment contributes nothing.
C14_TextIsConcatenation ==
    (entry = "extractOutputText" /\ pc = "returned") =>
        extracted[1] = C14_Join(SelectSeq(C14_MessageFragments(extractResp.Output),
                                          C14_IsOutputText))

\* two messages each contributed a different text, among fragments and items
\* that contribute nothing
C14_Witness ==
    /\ entry = "extractOutputText" /\ pc = "returned"
    /\ extractResp.Output =
           << Item("message", << Frag("output_text", "b"), Frag("refusal", "x") >>),
              Item("message", << Frag("output_text", ""), Frag("output_text", "a") >>) >>
    /\ extracted[1] = "ba"

\* ---------------------------------------------------------------- C15
\* SendPromptReturnResponse succeeded on a job that ended in a success status
\* and the caller has returned
C15_SuccessReturned ==
    /\ pc = "done"
    /\ sendErr = NilError
    /\ finalResp.Status \in SuccessStatuses \cup {""}

\* C15: when the job ended in a terminal-success status but its output text
\* cannot be decoded as JSON into the target type, UseChatGPTResponsesAPI and
\* UseChatGPTResponsesAPIWithImage return a non-nil error whose context is the
\* raw output text, together with the run metadata; it is never reported as
\* success.
C15_DecodeFailureIsError ==
    (C15_SuccessReturned /\ responseText # JSONText) =>
        /\ apiErr # NilError
        /\ apiErr.ctxKind = "text" /\ apiErr.ctxValue = responseText
        /\ llmRunMetadata = Ptr(meta)
        /\ meta.ResponseID = finalResp.ID
        /\ openAIResponse # "decoded"

\* a completed job whose output text is "foobar" was returned by the image caller
C15_Witness ==
    /\ C15_SuccessReturned
    /\ entry = "UseChatGPTResponsesAPIWithImage"
    /\ finalResp.Status = "completed"
    /\ responseText = "foobar"
    /\ apiErr # NilError

\* ---------------------------------------------------------------- C16
C16_MonthDays == <<31, 28, 31, 30, 31, 30, 31, 31, 30, 31, 30, 31>>
C16_Value(str) ==
    CHOOSE n \in 0..9999 :
        \E k \in 0..3 :
            /\ Len(str) = k + 1
            /\ n = IF k = 3 THEN 1000 * (IndexOf(Digits, str[1]) - 1)
                                 + 100 * (IndexOf(Digits, str[2]) - 1)
                                 + 10 * (IndexOf(Digits, str[3]) - 1)
                                 + (IndexOf(Digits, str[4]) - 1)
                   ELSE 10 * (IndexOf(Digits, str[1]) - 1) + (IndexOf(Digits, str[2]) - 1)
\* str is YYYY-MM-DD and names a day of the calendar
C16_ValidDate(str) ==
    /\ Len(str) = 10
    /\ str[5] = "-" /\ str[8] = "-"
    /\ \A i \in (1..10) \ {5, 8} : str[i] \in Range(Digits)
    /\ LET year == C16_Value(SubSeq(str, 1, 4))
           month == C16_Value(SubSeq(str, 6, 7))
           day == C16_Value(SubSeq(str, 9, 10))
           leap == (year % 400 = 0) \/ (year % 4 = 0 /\ year % 100 # 0)
       IN /\ month >= 1 /\ month <= 12
          /\ day >= 1
          /\ day <= (IF month = 2 /\ leap THEN 29 ELSE C16_MonthDays[month])

\* what the claim says ParseModelSnapshot returns for str
C16_Expected(str) ==
    IF /\ Len(str) >= 11
       /\ str[Len(str) - 10] = "-"
       /\ C16_ValidDate(SubSeq(str, Len(str) - 9, Len(str)))
    THEN << SubSeq(str, 1, Len(str) - 11), SubSeq(str, Len(str) - 9, Len(str)) >>
    ELSE << str, <<>> >>

C16_Returned == entry = "ParseModelSnapshot" /\ pc = "returned"

C17_Returned == entry = "ExtractLLMRunMetadata" /\ pc = "returned"

\* C17: ExtractLLMRunMetadata copies the input, output and total token counts
\* from the usage block, the cached count from its input-details sub-block and
\* the reasoning count from its output-details sub-block; with no usage block
\* every count is zero, and an absent sub-block leaves only its own count zero.
C17_TokenCounts ==
    C17_Returned =>
        LET m == extracted[1]
            usage == extractResp.Usage
        IN IF usage = Nil
           THEN /\ m.TokensIn = 0 /\ m.TokensOut = 0 /\ m.TokensTotal = 0
                /\ m.TokensCached = 0 /\ m.TokensReasoning = 0
           ELSE /\ m.TokensIn = usage[1].InputTokens
                /\ m.TokensOut = usage[1].OutputTokens
                /\ m.TokensTotal = usage[1].TotalTokens
                /\ usage[1].InputTokensDetails # Nil =>
                       m.TokensCached = usage[1].InputTokensDetails[1].CachedTokens
                /\ usage[1].InputTokensDetails = Nil => m.TokensCached = 0
                /\ usage[1].OutputTokensDetails # Nil =>
                       m.TokensReasoning = usage[1].OutputTokensDetails[1].ReasoningTokens
                /\ usage[1].OutputTokensDetails = Nil => m.TokensReasoning = 0

\* metadata was returned for a usage block with output details and no input
\* details, and the reasoning count was copied
C17_Witness ==
    /\ C17_Returned
    /\ extractResp.Usage # Nil
    /\ extractResp.Usage[1].InputTokensDetails = Nil
    /\ extractResp.Usage[1].OutputTokensDetails = Ptr(outputTokensDetails(2))
    /\ extractResp.Usage[1].InputTokens = 1
    /\ extracted[1].TokensReasoning = 2
    /\ extracted[1].TokensCached = 0

\* ---------------------------------------------------------------- C18
\* C18: for every terminal response ExtractLLMRunMetadata returns a metadata
\* record without faulting; its reasoning effort is the echoed effort when the
\* reasoning block carries one, and is empty when the block is absent or
\* carries no effort value.
C18_EffortWithoutFault ==
    (entry = "ExtractLLMRunMetadata" /\ pc # "call") =>
        /\ pc = "returned"
        /\ extracted[1].ReasoningEffort =
               IF extractResp.Reasoning # Nil /\ extractResp.Reasoning[1].Effort # Nil
               THEN extractResp.Reasoning[1].Effort[1] ELSE ""

\* ---------------------------------------------------------------- C19
\* the header names the coding the body was really written with
C19_Delivered(header, coding) ==
    /\ httpResp.ContentEncoding = header
    /\ httpResp.Body.bytes.coding = coding
    /\ ~httpResp.Body.readFails

\* C19: for the same content delivered with Content-Encoding gzip, deflate or
\* identity (header absent), GetBody returns the same decoded bytes, the
\* content itself, and a nil error in all three cases.
C19_SameBytesAnyEncoding ==
    (/\ entry = "GetBody" /\ pc # "call"
     /\ \/ C19_Delivered("gzip", "gzip")
        \/ C19_Delivered("deflate", "deflate")
        \/ C19_Delivered("", "identity"))
    => /\ pc = "returned"
       /\ gotBody.e = NilError
       /\ gotBody.body = Bytes("identity", httpResp.Body.bytes.content)

\* ---------------------------------------------------------------- C20
C20_Recognised == {"gzip", "deflate", "br", "", "none"}

\* C20: for a response whose Content-Encoding is none of gzip, deflate, br,
\* empty and none, GetBody does not fail on that account: it returns what it
\* returns for an identity body, the raw body bytes unchanged.
C20_UnknownEncodingIsIdentity ==
    (entry = "GetBody" /\ pc # "call" /\ httpResp.ContentEncoding \notin C20_Recognised)
    => /\ pc = "returned"
       /\ gotBody = GetBody([httpResp EXCEPT !.ContentEncoding = ""])
       /\ ~httpResp.Body.readFails =>
              gotBody.e = NilError /\ gotBody.body = httpResp.Body.bytes

\* a gzip-coded body labelled "zstd" came back as it was on the wire
C20_Witness ==
    /\ entry = "GetBody" /\ pc = "returned"
    /\ httpResp.ContentEncoding = "zstd"
    /\ httpResp.Body.bytes = Bytes("gzip", JSONText)
    /\ gotBody.e = NilError
    /\ gotBody.body = Bytes("gzip", JSONText)

\* ---------------------------------------------------------------- C21
C21_Exchanged == entry \in {"createResponse", "getResponseByID"} /\ pc # "call"

\* C21 (as stated): createResponse and getResponseByID treat a reply as a
\* failure exactly when its status code is outside the 2xx class: every
\* non-2xx status yields an error carrying the raw response body, and every 2xx
\* status proceeds to envelope decoding.
C21_FailureIffNot2xx ==
    C21_Exchanged =>
        IF statusCode \in 200..299
        THEN pc = "returned" /\ exchanged.e.err \in {"nil", "decode"}
        ELSE /\ pc = "returned"
             /\ exchanged.e.err = "status"
             /\ exchanged.e.ctxValue = httpResp.Body.bytes

\* the body of the reply as the function obtains it before it looks at (in
\* createResponse) or after it has looked at (in getResponseByID) the status
C21_BodyObtained ==
    IF entry = "createResponse" \/ statusCode = 200
    THEN ~GetBody(httpResp).fault /\ GetBody(httpResp).e = NilError
    ELSE ~httpResp.Body.readFails

\* C21 (amended): the two functions treat a reply as a failure exactly when
\* its status code is not 200: a reply with any other status, 201..299
\* included, whose body could be obtained yields the status error carrying
\* that body, and a 200 reply whose body could be obtained proceeds to
\* envelope decoding; a status error is returned for no 200 reply.
C21_FailureIffNot200 ==
    C21_Exchanged =>
        /\ (statusCode # 200 /\ C21_BodyObtained) =>
               /\ pc = "returned"
               /\ exchanged.e.err = "status" /\ exchanged.e.ctxKind = "body"
               /\ exchanged.e.ctxValue =
                      IF entry = "createResponse" THEN GetBody(httpResp).body
                                                  ELSE httpResp.Body.bytes
        /\ (statusCode = 200 /\ C21_BodyObtained) =>
               pc = "returned" /\ exchanged.e.err \in {"nil", "decode"}
        /\ (pc = "returned" /\ exchanged.e.err = "status") => statusCode # 200

\* a 202 reply with a readable JSON body came back from createResponse as a
\* status error
C21_Witness ==
    /\ entry = "createResponse" /\ pc = "returned"
    /\ statusCode = 202
    /\ httpResp = HttpResponse("", BodyStream(Bytes("identity", JSONText), FALSE))
    /\ exchanged.e.err = "status"
    /\ exchanged.e.ctxValue = Bytes("identity", JSONText)

\* ---------------------------------------------------------------- C22
\* C22 (as stated): within one call of SendPromptReturnResponse the only sleep
\* is the fixed-interval wait between polls; an attempt that completes without
\* polling performs no sleep at all.
C22_OnlyPollSleeps ==
    Returned => (tailSleeps = 0 /\ (poll = 0 => sleeps = 0))

\* C22 (amended): within one call of SendPromptReturnResponse the sleeps are
\* the fixed-interval waits between polls, one after each non-terminal status
\* fetched, and one more wait of 3 seconds before every successful return; an
\* attempt that completes without polling sleeps exactly once, for those 3
\* seconds, and an attempt that returns an error sleeps only between polls.
C22_PollSleepsAndTailWait ==
    Returned =>
        /\ tailSleeps = (IF sendErr = NilError THEN 1 ELSE 0)
        /\ sleeps <= poll
        /\ poll = 0 => sleeps = 0
        /\ (poll = 0 /\ sendErr = NilError) => now >= startTime + TailWaitSeconds

\* a job that was complete at once was returned after one sleep and no poll
C22_Witness ==
    /\ Returned
    /\ sendErr = NilError
    /\ initial.Status = "completed"
    /\ poll = 0 /\ sleeps = 0
    /\ tailSleeps = 1

\* ---------------------------------------------------------------- C23
\* what a failed createResponse makes SendPromptReturnResponse return
C23_CreateFailureReturned ==
    (Returned /\ createErr # NilError) =>
        /\ sendErr = createErr
        /\ responseText = "" /\ meta = EmptyMetadata
        /\ poll = 0

\* C23 (as stated): each call of SendPromptReturnResponse issues exactly one
\* POST /responses; if it fails in any way the call returns the error with
\* empty text and empty metadata, without re-submitting and without any GET.
C23_ExactlyOnePost ==
    /\ Returned => posts = 1
    /\ C23_CreateFailureReturned

\* C23 (amended): each call issues at most one POST /responses: exactly one,
\* unless the payload cannot be encoded, in which case none is sent; if
\* createResponse fails in any way the call returns the error with empty text
\* and empty metadata, without re-submitting and without any GET.
C23_AtMostOnePost ==
    /\ posts <= 1
    /\ Returned => posts = (IF createErr.err = "marshal" THEN 0 ELSE 1)
    /\ C23_CreateFailureReturned

\* a POST answered by a reply that is not a success was returned as the error
C23_Witness ==
    /\ Returned
    /\ createErr.err = "status"
    /\ posts = 1 /\ poll = 0
    /\ sendErr = createErr

\* ---------------------------------------------------------------- C24
\* the timing fields and the log URL of the record, leaving the sign of Elapsed
C24_TimingFields ==
    LET m == extracted[1]
    IN /\ m.StartedAt = extractStart * 1000
       /\ m.FinishedAt = now * 1000
       /\ m.Elapsed = m.FinishedAt - m.StartedAt
       /\ m.ResponseLogsUrl = "https://platform.openai.com/logs/" \o extractResp.ID

\* C24 (as stated): in every metadata record built by ExtractLLMRunMetadata,
\* StartedAt is the caller-supplied start time in epoch milliseconds, FinishedAt
\* is the time of extraction, Elapsed = FinishedAt - StartedAt and is
\* non-negative, and the log URL is the logs prefix followed by the response id.
C24_TimingNonNegative ==
    C17_Returned => (C24_TimingFields /\ extracted[1].Elapsed >= 0)

\* C24 (amended): the same, with Elapsed non-negative exactly when the
\* caller-supplied start time is not later than the time of extraction.
C24_TimingFromStartTime ==
    C17_Returned =>
        /\ C24_TimingFields
        /\ extracted[1].Elapsed >= 0 <=> extractStart <= now

\* metadata was built 2 seconds after the start time the caller supplied
C24_Witness ==
    /\ C17_Returned
    /\ extractStart = 0 /\ now = 2
    /\ extractResp.ID = "resp_2"
    /\ extracted[1].Elapsed = 2000
    /\ extracted[1].ResponseLogsUrl = "https://platform.openai.com/logs/resp_2"

\* ---------------------------------------------------------------- C25
\* C25: waitForResponseCompletion looks at the deadline only at the top of an
\* iteration, before the GET: a terminal status fetched by a GET issued before
\* the deadline is acted on even when the deadline has passed by the time the
\* GET returns, so the timeout result is returned only when the most recently
\* fetched status, if any, was a non-terminal one.
C25_TimeoutOnlyAfterPending ==
    pc = "waitReturned" =>
        /\ waitErr.err = "timeout" =>
              (poll = 0 \/ StatusClass(previousStatus) = "pending")
        /\ (poll > 0 /\ waitErr.err \notin TransportFailures \cup {"timeout"}) =>
              \/ /\ StatusClass(lastResp.Status) = "success"
                 /\ waitErr = NilError /\ final = lastResp
              \/ /\ StatusClass(lastResp.Status) = "failure"
                 /\ waitErr = JobFailureError(lastResp) /\ final = lastResp

\* a GET issued before the deadline returned "completed" after it, and the
\* loop returned that response without an error
C25_Witness ==
    /\ entry = "waitForResponseCompletion" /\ pc = "waitReturned"
    /\ useTimeout /\ now > deadline
    /\ now - getLatency <= deadline
    /\ final.Status = "completed"
    /\ waitErr = NilError

C27_UsageLogNeverFaults ==
    (/\ finalResp.Usage # Nil
     /\ StatusClass(finalResp.Status) = "success"
     /\ ~MetadataFaults(finalResp)) =>
        pc # "panic"

C29_Over == entry = "main" /\ pc \in {"batchDone", "exit", "panic"}

\* C29: in the batch pipeline a failure processing one image (OCR, artifact
\* loading, LLM analysis, totals mismatch) never stops the run: every image is
\* attempted exactly once, in sorted order, each is counted as processed or as
\* skipped and not both, processedCount + skippedCount is the number of images
\* when the run is over, and an image skipped for a totals mismatch has no
\* receipt-analysis.json written.
C29_EveryImageCounted ==
    entry = "main" =>
        /\ Ascending(imagesToProcess)
        /\ Len(attempted) <= Len(imagesToProcess)
        /\ \A i \in DOMAIN attempted :
              /\ attempted[i].image = imagesToProcess[i]
              /\ attempted[i].met = "mismatch" => attempted[i].image \notin written
        /\ processedCount = Cardinality({ i \in DOMAIN attempted : attempted[i].met = "ok" })
        /\ C29_Over =>
              /\ Len(attempted) = Len(imagesToProcess)
              /\ processedCount + skippedCount = Len(imagesToProcess)

\* ---------------------------------------------------------------- C30
RECURSIVE C30_Sum(_, _)
\* the sum of f[x].Amount over x in S
C30_Sum(f, S) ==
    IF S = {} THEN 0
    ELSE LET x == CHOOSE y \in S : TRUE IN f[x].Amount + C30_Sum(f, S \ {x})

C30_Returned == entry = "buildCategoryRows" /\ pc = "returned"

\* C30: buildCategoryRows conserves spend: the Amounts of the returned rows
\* add up to the Amounts of all input aggregates; it returns at most
\* max(maxRows, 3) rows; and when the overflow is grouped the grouped row is
\* the last one, has key "other", and holds the sum of the rows it replaced.
C30_ConservesSpend ==
    C30_Returned =>
        LET r == rows[1]
            n == Len(r)
            keys == DOMAIN categoryAggByKey
            m == IF maxRows > 3 THEN maxRows ELSE 3
            own == IF Cardinality(keys) > m THEN 1..(n - 1) ELSE 1..n
            ownKeys == { r[i].Key : i \in own }
        IN /\ C30_Sum(r, 1..n) = C30_Sum(categoryAggByKey, keys)
           /\ n <= m
           /\ \A i \in own : r[i].Key \in keys /\ r[i].Amount = categoryAggByKey[r[i].Key].Amount
           /\ \A i, j \in own : i < j => (r[i].Key # r[j].Key /\ r[i].Amount >= r[j].Amount)
           /\ IF Cardinality(keys) > m
              THEN /\ n = m
                   /\ r[n].Key = "other"
                   /\ r[n].Amount = C30_Sum(categoryAggByKey, keys \ ownKeys)
              ELSE n = Cardinality(keys)

\* four categories under a limit of three rows: the two smallest were
\* grouped into the last row, behind a category that is itself keyed "other"
C30_Witness ==
    /\ C30_Returned
    /\ maxRows = 3
    /\ DOMAIN categoryAggByKey = {"food", "fun", "home", "other"}
    /\ Len(rows[1]) = 3
    /\ rows[1][2] = [Key |-> "other", Amount |-> 2]
    /\ rows[1][3] = [Key |-> "other", Amount |-> 2]
    /\ categoryAggByKey["fun"].Amount = 1 /\ categoryAggByKey["home"].Amount = 1

====
